---- MODULE Spec2Model ----
\* MathComps embedding service: the FastAPI application (app.py) and the
\* Model Host it owns (embedding_model.py), as a state machine.
EXTENDS Integers, Sequences, FiniteSets, TLC

\* ------------------------------------------------------------------ bounds

\* Longest texts list a caller sends.
MaxTexts == 2

\* The requests a run follows; two, so that one is in flight while another is served.
RequestIds == {"r1", "r2"}

\* Strings a caller puts in `texts`.
Texts == {"Hello world", "x"}

\* Strings a caller puts in `role`.
RoleStrings == {"passage", "query", "bogus", "Passage", ""}

\* Optional[T]: None, or one value.
None == <<>>

Some(x) == <<x>>

Roles == {None} \cup {Some(s) : s \in RoleStrings}

TextLists == UNION {[1..n -> Texts] : n \in 0..MaxTexts}

\* ------------------------------------------------------- embedding_model.py

\* The message of the error the underlying model raises when an encode fails.
EncodeError == "encode error"

\* The vector the underlying model assigns to one input string.
E5(text) == <<"E5", text>>

\* SentenceTransformer.encode(processed_texts, ...): one vector per string, in order.
encode(processed_texts) == [i \in 1..Len(processed_texts) |-> E5(processed_texts[i])]

\* ndarray.tolist(): the rows as a list, in order.
tolist(embeddings) == [i \in 1..Len(embeddings) |-> embeddings[i]]

\* EmbeddingModel.__init__ with _load_model: the object when loading succeeds;
\* when loading raises, the constructor raises and no object exists.
EmbeddingModel(loads) ==
    IF loads
    THEN [raised |-> FALSE,
          self |-> Some([model_name |-> "intfloat/multilingual-e5-base",
                         model |-> Some("SentenceTransformer")])]
    ELSE [raised |-> TRUE, self |-> None]

is_ready(self) == self.model # None

\* Mutant of _apply_role_prefix: the prefix lacks the space after the colon.
apply_role_prefix_no_space(texts, role) ==
    IF role = None \/ role = Some("")
    THEN texts
    ELSE IF role[1] \notin {"passage", "query"}
         THEN texts
         ELSE [i \in 1..Len(texts) |-> role[1] \o ":" \o texts[i]]

\* Mutant of _apply_role_prefix: the membership test is missing, every
\* non-empty role is prefixed.
apply_role_prefix_any_role(texts, role) ==
    IF role = None \/ role = Some("")
    THEN texts
    ELSE [i \in 1..Len(texts) |-> role[1] \o ": " \o texts[i]]

\* EmbeddingModel._apply_role_prefix
apply_role_prefix(texts, role) ==
    IF role = None \/ role = Some("")
    THEN texts
    ELSE IF role[1] \notin {"passage", "query"}
         THEN texts
         ELSE LET prefix == role[1] \o ": "
              IN  [i \in 1..Len(texts) |-> prefix \o texts[i]]

\* What a call of generate_embeddings yields: the exception it raises ("" for
\* none) with its message, the value it returns, how often it invoked the
\* underlying model and the sequence it handed to it.
Outcome(raised, message, value, encodeCalls, encoded) ==
    [raised |-> raised, message |-> message, value |-> value,
     encodeCalls |-> encodeCalls, encoded |-> encoded]

\* Mutant of generate_embeddings: the vectors come back in reverse order.
generate_embeddings_reversed(self, texts, role, encodeFails) ==
    IF ~is_ready(self)
    THEN Outcome("ValueError", "Model not loaded. Call _load_model() first.", <<>>, 0, <<>>)
    ELSE IF texts = <<>>
         THEN Outcome("", "", <<>>, 0, <<>>)
         ELSE LET processed_texts == apply_role_prefix(texts, role)
                  n == Len(processed_texts)
              IN  IF encodeFails
                  THEN Outcome("RuntimeError", "Embedding generation failed: " \o EncodeError,
                               <<>>, 1, processed_texts)
                  ELSE Outcome("", "", [i \in 1..n |-> E5(processed_texts[n + 1 - i])],
                               1, processed_texts)

\* Mutant of generate_embeddings: no early return for an empty list, the
\* underlying model is invoked on it.
generate_embeddings_no_empty_return(self, texts, role, encodeFails) ==
    IF ~is_ready(self)
    THEN Outcome("ValueError", "Model not loaded. Call _load_model() first.", <<>>, 0, <<>>)
    ELSE LET processed_texts == apply_role_prefix(texts, role)
         IN  IF encodeFails
             THEN Outcome("RuntimeError", "Embedding generation failed: " \o EncodeError,
                          <<>>, 1, processed_texts)
             ELSE Outcome("", "", tolist(encode(processed_texts)), 1, processed_texts)

\* Mutant of generate_embeddings: a failed encode is tried a second time
\* before the error is raised.
generate_embeddings_retry(self, texts, role, encodeFails) ==
    IF ~is_ready(self)
    THEN Outcome("ValueError", "Model not loaded. Call _load_model() first.", <<>>, 0, <<>>)
    ELSE IF texts = <<>>
         THEN Outcome("", "", <<>>, 0, <<>>)
         ELSE LET processed_texts == apply_role_prefix(texts, role)
              IN  IF encodeFails
                  THEN Outcome("RuntimeError", "Embedding generation failed: " \o EncodeError,
                               <<>>, 2, processed_texts)
                  ELSE Outcome("", "", tolist(encode(processed_texts)), 1, processed_texts)

\* Mutant of generate_embeddings: a failed encode is swallowed and the
\* vectors computed so far (all but the last) are returned.
generate_embeddings_partial(self, texts, role, encodeFails) ==
    IF ~is_ready(self)
    THEN Outcome("ValueError", "Model not loaded. Call _load_model() first.", <<>>, 0, <<>>)
    ELSE IF texts = <<>>
         THEN Outcome("", "", <<>>, 0, <<>>)
         ELSE LET processed_texts == apply_role_prefix(texts, role)
                  embeddings == encode(processed_texts)
              IN  IF encodeFails
                  THEN Outcome("", "", SubSeq(embeddings, 1, Len(embeddings) - 1),
                               1, processed_texts)
                  ELSE Outcome("", "", tolist(embeddings), 1, processed_texts)

\* EmbeddingModel.generate_embeddings. encodeFails: whether the underlying
\* model's encode raises on this call.
generate_embeddings(self, texts, role, encodeFails) ==
    IF ~is_ready(self)
    THEN Outcome("ValueError", "Model not loaded. Call _load_model() first.", <<>>, 0, <<>>)
    ELSE IF texts = <<>>
         THEN Outcome("", "", <<>>, 0, <<>>)
         ELSE LET processed_texts == apply_role_prefix(texts, role)
                  embeddings == encode(processed_texts)
              IN  IF encodeFails
                  THEN Outcome("RuntimeError", "Embedding generation failed: " \o EncodeError,
                               <<>>, 1, processed_texts)
                  ELSE Outcome("", "", tolist(embeddings), 1, processed_texts)

\* ------------------------------------------------------------------- state

VARIABLES
    phase,            \* lifespan: "created", "serving", "failed" (startup raised), "stopped"
    embedding_model,  \* app.py's global: None or Some(EmbeddingModel object)
    req,              \* per request id: the request, where it is, and its response
    health,           \* the latest GET /health response, with the handle it was computed from
    hostCall          \* the latest direct call of generate_embeddings and its outcome

vars == <<phase, embedding_model, req, health, hostCall>>

\* A request slot nobody has used yet.
Idle ==
    [stage |-> "idle", texts |-> <<>>, role |-> None,
     status_code |-> 0, body |-> "", vectors |-> <<>>, detail |-> "",
     responses |-> 0, encodeCalls |-> 0, encoded |-> <<>>]

NoHealth ==
    [polled |-> FALSE, status_code |-> 0, raised |-> FALSE, status |-> "",
     model_loaded |-> FALSE, model_name |-> "", handle |-> None]

NoHostCall ==
    [called |-> FALSE, texts |-> <<>>, role |-> None, encodeFails |-> FALSE,
     result |-> Outcome("", "", <<>>, 0, <<>>)]

Init ==
    /\ phase = "created"
    /\ embedding_model = None
    /\ req = [r \in RequestIds |-> Idle]
    /\ health = NoHealth
    /\ hostCall = NoHostCall

InFlight(r) == req[r].stage \in {"sent", "validated"}

\* --------------------------------------------------------------- lifespan

\* Mutant of Startup: the load error is logged and swallowed, startup completes.
StartupSwallowsError(loads) ==
    /\ phase = "created"
    /\ LET made == EmbeddingModel(loads)
       IN  /\ embedding_model' = made.self
           /\ phase' = "serving"
    /\ UNCHANGED <<req, health, hostCall>>

\* lifespan up to its yield: construct the model; a load error is re-raised
\* and startup aborts.
Startup(loads) ==
    /\ phase = "created"
    /\ LET made == EmbeddingModel(loads)
       IN  IF made.raised
           THEN /\ phase' = "failed"
                /\ UNCHANGED embedding_model
           ELSE /\ embedding_model' = made.self
                /\ phase' = "serving"
    /\ UNCHANGED <<req, health, hostCall>>

\* lifespan after its yield: a log line.
Shutdown ==
    /\ phase = "serving"
    /\ phase' = "stopped"
    /\ UNCHANGED <<embedding_model, req, health, hostCall>>

\* ----------------------------------------------------------- POST /embed

\* A caller sends POST /embed with a body.
PostEmbed(r, texts, role) ==
    /\ req[r].stage = "idle"
    /\ req' = [req EXCEPT ![r] = [Idle EXCEPT !.stage = "sent", !.texts = texts, !.role = role]]
    /\ UNCHANGED <<phase, embedding_model, health, hostCall>>

\* The response to a request: an error with a detail ...
Fails(request, status_code, detail, encodeCalls, encoded) ==
    [request EXCEPT !.stage = "done", !.status_code = status_code, !.body = "detail",
                    !.detail = detail, !.responses = @ + 1,
                    !.encodeCalls = encodeCalls, !.encoded = encoded]

\* ... or EmbedResponse(vectors=vectors).
EmbedResponse(request, vectors, encodeCalls, encoded) ==
    [request EXCEPT !.stage = "done", !.status_code = 200, !.body = "vectors",
                    !.vectors = vectors, !.responses = @ + 1,
                    !.encodeCalls = encodeCalls, !.encoded = encoded]

\* EmbedRequest: the body is validated before the handler is called; texts
\* has min_items=1, and a body that fails validation is answered 422.
EmbedRequest(r) ==
    /\ req[r].stage = "sent"
    /\ req' = [req EXCEPT ![r] =
                  IF Len(req[r].texts) < 1
                  THEN Fails(req[r], 422, "validation error", 0, <<>>)
                  ELSE [req[r] EXCEPT !.stage = "validated"]]
    /\ UNCHANGED <<phase, embedding_model, health, hostCall>>

\* embed_texts, the handler of POST /embed.
embed_texts(r, encodeFails) ==
    /\ req[r].stage = "validated"
    /\ req' = [req EXCEPT ![r] =
                  IF req[r].texts = <<>>
                  THEN Fails(req[r], 400, "texts list cannot be empty", 0, <<>>)
                  ELSE IF embedding_model = None
                       THEN Fails(req[r], 500,
                                  "Embedding generation failed: 'NoneType' object has no attribute 'generate_embeddings'",
                                  0, <<>>)
                       ELSE LET result == generate_embeddings(embedding_model[1], req[r].texts,
                                                              req[r].role, encodeFails)
                            IN  IF result.raised # ""
                                THEN Fails(req[r], 500,
                                           "Embedding generation failed: " \o result.message,
                                           result.encodeCalls, result.encoded)
                                ELSE EmbedResponse(req[r], result.value, result.encodeCalls,
                                                   result.encoded)]
    /\ UNCHANGED <<phase, embedding_model, health, hostCall>>

\* ------------------------------------------------------------ GET /health

\* Mutant of health_check: is_ready() is called on the handle without the
\* None test, so the handler raises while no model exists.
health_check_no_none_test ==
    /\ health' =
          IF embedding_model = None
          THEN [polled |-> TRUE, status_code |-> 500, raised |-> TRUE, status |-> "",
                model_loaded |-> FALSE, model_name |-> "", handle |-> embedding_model]
          ELSE [polled |-> TRUE, status_code |-> 200, raised |-> FALSE,
                status |-> IF is_ready(embedding_model[1]) THEN "healthy" ELSE "unhealthy",
                model_loaded |-> is_ready(embedding_model[1]),
                model_name |-> "intfloat/multilingual-e5-base",
                handle |-> embedding_model]
    /\ UNCHANGED <<phase, embedding_model, req, hostCall>>

\* health_check, the handler of GET /health.
health_check ==
    /\ LET model_ready == embedding_model # None /\ is_ready(embedding_model[1])
       IN  health' = [polled |-> TRUE, status_code |-> 200, raised |-> FALSE,
                      status |-> IF model_ready THEN "healthy" ELSE "unhealthy",
                      model_loaded |-> model_ready,
                      model_name |-> "intfloat/multilingual-e5-base",
                      handle |-> embedding_model]
    /\ UNCHANGED <<phase, embedding_model, req, hostCall>>

\* ------------------------------------------------- the Model Host, directly

\* A caller holding the EmbeddingModel object calls generate_embeddings.
CallGenerateEmbeddings(texts, role, encodeFails) ==
    /\ embedding_model # None
    /\ hostCall' = [called |-> TRUE, texts |-> texts, role |-> role,
                    encodeFails |-> encodeFails,
                    result |-> generate_embeddings(embedding_model[1], texts, role, encodeFails)]
    /\ UNCHANGED <<phase, embedding_model, req, health>>

\* --------------------------------------------------------- specifications

\* The server runs the lifespan's startup before it accepts a connection, and
\* its shutdown after the last connection has closed.
Serving == phase = "serving"

Quiescent == \A r \in RequestIds : ~InFlight(r)

\* The service as served: traffic only between startup and shutdown.
Next ==
    \/ \E loads \in BOOLEAN : Startup(loads)
    \/ Quiescent /\ Shutdown
    \/ \E r \in RequestIds, texts \in TextLists, role \in Roles :
          Serving /\ PostEmbed(r, texts, role)
    \/ \E r \in RequestIds : EmbedRequest(r)
    \/ \E r \in RequestIds, encodeFails \in BOOLEAN : embed_texts(r, encodeFails)
    \/ Serving /\ health_check

Spec == Init /\ [][Next]_vars

\* The application object driven without the server's gating: the handlers
\* are called whatever the lifespan has done so far.
NextHarness ==
    \/ \E loads \in BOOLEAN : Startup(loads)
    \/ Shutdown
    \/ \E r \in RequestIds, texts \in TextLists, role \in Roles : PostEmbed(r, texts, role)
    \/ \E r \in RequestIds : EmbedRequest(r)
    \/ \E r \in RequestIds, encodeFails \in BOOLEAN : embed_texts(r, encodeFails)
    \/ health_check

SpecHarness == Init /\ [][NextHarness]_vars

\* The Model Host alone: the object is constructed and generate_embeddings is
\* called on it with any texts, the empty list included.
NextHost ==
    \/ \E loads \in BOOLEAN : Startup(loads)
    \/ Shutdown
    \/ \E texts \in TextLists, role \in Roles, encodeFails \in BOOLEAN :
          CallGenerateEmbeddings(texts, role, encodeFails)

SpecHost == Init /\ [][NextHost]_vars

\* ------------------------------------------------------------------ claims

Done(r) == req[r].stage = "done"

HandleAbsent == "Embedding generation failed: 'NoneType' object has no attribute 'generate_embeddings'"

HandleNotReady == "Embedding generation failed: Model not loaded. Call _load_model() first."

EncodeFailed == "Embedding generation failed: Embedding generation failed: " \o EncodeError

\* C1: a POST /embed whose texts list is empty is answered with the status 400.
C1_EmptyTextsAnswered400 ==
    \A r \in RequestIds :
        (Done(r) /\ req[r].texts = <<>>) => req[r].status_code = 400

\* C2: a successful POST /embed carries as many vectors as texts, and vector i
\* is the embedding of text i after prefixing, whatever else is in flight.
C2_OneVectorPerTextInOrder ==
    \A r \in RequestIds :
        (Done(r) /\ req[r].status_code = 200) =>
            /\ req[r].texts # <<>>
            /\ Len(req[r].vectors) = Len(req[r].texts)
            /\ \A i \in 1..Len(req[r].texts) :
                  req[r].vectors[i] =
                      E5(IF req[r].role \in {Some("passage"), Some("query")}
                         THEN req[r].role[1] \o ": " \o req[r].texts[i]
                         ELSE req[r].texts[i])

\* Two distinct texts embedded under a role while the other request is in flight.
C2_Witness ==
    \E r, q \in RequestIds :
        /\ r # q
        /\ req[q].stage = "validated"
        /\ req[q].texts # req[r].texts
        /\ Done(r)
        /\ req[r].status_code = 200
        /\ req[r].role = Some("query")
        /\ Len(req[r].texts) = 2
        /\ req[r].texts[1] # req[r].texts[2]

\* C3: under the role "passage" or "query" the sequence handed to the
\* underlying model has the length and order of texts and its i-th element is
\* role + ": " + texts[i]; with the role unset it is texts unchanged.
C3_PrefixIsExact ==
    \A r \in RequestIds :
        req[r].encodeCalls > 0 =>
            /\ req[r].role \in {Some("passage"), Some("query")} =>
                  /\ Len(req[r].encoded) = Len(req[r].texts)
                  /\ \A i \in 1..Len(req[r].texts) :
                        req[r].encoded[i] = req[r].role[1] \o ": " \o req[r].texts[i]
            /\ req[r].role = None => req[r].encoded = req[r].texts
            /\ \A i \in 1..Len(req[r].texts) :
                  (req[r].role = Some("passage") /\ req[r].texts[i] = "Hello world") =>
                      req[r].encoded[i] = "passage: Hello world"

\* "Hello world" under the role "passage" has been handed to the model.
C3_Witness ==
    \E r \in RequestIds :
        /\ req[r].encodeCalls = 1
        /\ req[r].role = Some("passage")
        /\ req[r].texts = <<"x", "Hello world">>
        /\ req[r].encoded = <<"passage: x", "passage: Hello world">>

\* C4: for a role other than "passage" and "query", generate_embeddings raises
\* nothing on account of the role and hands the model the texts it hands it
\* with the role unset, so the output is that of the role unset.
C4_UnknownRoleIsRoleUnset ==
    (hostCall.called /\ hostCall.role \notin {None, Some("passage"), Some("query")}) =>
        /\ hostCall.result.raised # "" =>
              /\ hostCall.encodeFails
              /\ hostCall.texts # <<>>
              /\ hostCall.result.raised = "RuntimeError"
        /\ hostCall.result.encodeCalls > 0 => hostCall.result.encoded = hostCall.texts
        /\ hostCall.result.raised = "" =>
              hostCall.result.value = [i \in 1..Len(hostCall.texts) |-> E5(hostCall.texts[i])]

\* Two texts embedded under the role "Passage".
C4_Witness ==
    /\ hostCall.called
    /\ hostCall.role = Some("Passage")
    /\ hostCall.texts = <<"Hello world", "x">>
    /\ hostCall.result.raised = ""
    /\ hostCall.result.value = <<E5("Hello world"), E5("x")>>

\* C5: a POST /embed with non-empty texts ends with 200 and one vector per
\* text, or with 500, an error message and no vectors; never with part of the
\* vectors.
C5_AllOrNothing ==
    \A r \in RequestIds :
        (Done(r) /\ req[r].texts # <<>>) =>
            \/ /\ req[r].status_code = 200
               /\ req[r].body = "vectors"
               /\ Len(req[r].vectors) = Len(req[r].texts)
            \/ /\ req[r].status_code = 500
               /\ req[r].body = "detail"
               /\ req[r].detail \in {HandleAbsent, HandleNotReady, EncodeFailed}
               /\ req[r].vectors = <<>>

\* One request failed for want of a model handle, another on the encode.
C5_Witness ==
    \E r, q \in RequestIds :
        /\ Done(r) /\ req[r].status_code = 500 /\ req[r].detail = HandleAbsent
        /\ Done(q) /\ req[q].status_code = 500 /\ req[q].detail = EncodeFailed
        /\ Len(req[q].texts) = 2

\* C6: GET /health answers 200 and never an error, "healthy" with
\* model_loaded true exactly when the handle exists and is ready, "unhealthy"
\* with model_loaded false otherwise.
C6_HealthAlwaysAnswers ==
    health.polled =>
        LET ready == health.handle # None /\ is_ready(health.handle[1])
        IN  /\ health.status_code = 200
            /\ ~health.raised
            /\ health.model_name = "intfloat/multilingual-e5-base"
            /\ ready => (health.status = "healthy" /\ health.model_loaded)
            /\ ~ready => (health.status = "unhealthy" /\ ~health.model_loaded)

\* Polled after shutdown, with a request in flight.
C6_Witness ==
    /\ health.polled
    /\ health.status = "healthy"
    /\ phase = "stopped"
    /\ \E r \in RequestIds : InFlight(r)

\* C7: a request is handled only with the handle set and ready, so no
\* response reports a missing model; and after a failed load the process
\* has no handle and has served nothing.
C7_TrafficOnlyAfterLoad ==
    /\ \A r \in RequestIds :
          /\ InFlight(r) => (embedding_model # None /\ is_ready(embedding_model[1]))
          /\ Done(r) => req[r].detail \notin {HandleAbsent, HandleNotReady}
    /\ phase = "serving" => (embedding_model # None /\ is_ready(embedding_model[1]))
    /\ phase = "failed" =>
          /\ embedding_model = None
          /\ ~health.polled
          /\ \A r \in RequestIds : req[r] = Idle

\* A request is being handled while the service is up.
C7_Witness ==
    /\ phase = "serving"
    /\ \E r \in RequestIds : req[r].stage = "validated"

\* C8: once the lifespan's shutdown has run, the handle holds no loaded model.
C8_ShutdownReleasesModel ==
    phase = "stopped" => (embedding_model = None \/ ~is_ready(embedding_model[1]))

\* C9: generate_embeddings on an empty list returns an empty list, without
\* invoking the underlying model and without raising.
C9_EmptyInEmptyOut ==
    (hostCall.called /\ hostCall.texts = <<>>) =>
        /\ hostCall.result.raised = ""
        /\ hostCall.result.value = <<>>
        /\ hostCall.result.encodeCalls = 0

\* The empty list under a role, on a call whose encode would have failed.
C9_Witness ==
    /\ hostCall.called
    /\ hostCall.texts = <<>>
    /\ hostCall.role = Some("passage")
    /\ hostCall.encodeFails
    /\ hostCall.result.value = <<>>

\* C10: a POST /embed invokes the underlying model at most once: never when
\* it is rejected for empty texts, once when texts is non-empty, and not
\* again after a failure, which is answered once.
C10_AtMostOneEncode ==
    \A r \in RequestIds :
        /\ req[r].encodeCalls <= 1
        /\ req[r].responses = (IF Done(r) THEN 1 ELSE 0)
        /\ ~Done(r) => req[r].encodeCalls = 0
        /\ (Done(r) /\ req[r].texts = <<>>) =>
              (req[r].encodeCalls = 0 /\ req[r].status_code \in {400, 422})
        /\ (Done(r) /\ req[r].texts # <<>>) =>
              (req[r].encodeCalls = 1 /\ req[r].status_code \in {200, 500})

\* One request rejected for empty texts, another failed on its one encode.
C10_Witness ==
    \E r, q \in RequestIds :
        /\ Done(r) /\ req[r].texts = <<>> /\ req[r].encodeCalls = 0
        /\ Done(q) /\ req[q].status_code = 500 /\ req[q].encodeCalls = 1

====
